---------------------------- MODULE Spec2Model ----------------------------
(***************************************************************************)
(* Model of catchup_ingester.py: CatchupIngester.catchup_gap (gap planner, *)
(* concurrent fetch pool, result loop with threshold flush, final flush,   *)
(* cascade refresh), the signal handler, download_bi5_file, insert_batch,  *)
(* the progress reporter's output and main.                                *)
(*                                                                         *)
(* Instants are whole seconds since 00:00:00 of day 0 (UTC).  A tick       *)
(* record is [time, quote, source]: the symbol is fixed during a run and   *)
(* quote stands for the four columns bid, ask, bid_size, ask_size.         *)
(***************************************************************************)
EXTENDS Integers, Sequences, FiniteSets, TLC

VARIABLES
    from_time,          \* window.from (catchup_gap argument)
    to_time,            \* window.to   (catchup_gap argument)
    max_workers,        \* self.max_workers
    batch_size,         \* self.batch_size
    archive,            \* vendor store: the records (offset in seconds, quote) of every archive
    shutdown,           \* self.shutdown
    pc,                 \* position of the main thread inside catchup_gap
    downloads_to_fetch, \* the plan
    fut,                \* per unit: state of its future / worker
    completed,          \* as_completed: the finished futures not yet yielded
    cur,                \* dl_info: index of the unit being processed (0: none)
    tick_buffer,        \* tick_buffer
    stats,              \* stats dict
    progress,           \* ProgressReporter counters
    insert_calls,       \* every batch handed to insert_batch, with its outcome
    flush_failures,     \* number of insert_batch failures so far (capped)
    refresh,            \* cascade refresh: start_time of every call issued, and whether it failed
    sig,                \* what the run looked like when the signal handler ran
    forex_ticks,        \* the forex_ticks table, by time (the symbol is fixed): quote and source
    handled,            \* every result taken by the loop: its unit and the ticks it buffered
    stdout,             \* the JSON lines printed so far
    exited,             \* <<>> while the process runs, <<status>> once it has exited
    now,                \* datetime.now(timezone.utc) as validate_timerange reads it
    aware               \* whether the parsed --from / --to carry a UTC offset

vars == <<from_time, to_time, max_workers, batch_size, archive, shutdown, pc,
          downloads_to_fetch, fut, completed, cur, tick_buffer, stats, progress,
          insert_calls, flush_failures, refresh, sig, forex_ticks, handled, stdout,
          exited, now, aware>>

-----------------------------------------------------------------------------
(* Time arithmetic *)

HourSecs == 3600
DaySecs == 86400
WeekDays == 7

\* from_time.replace(minute=0, second=0, microsecond=0)
TruncHourNoTruncation(t) == t
TruncHour(t) == t - (t % HourSecs)

\* current.replace(hour=0): only the hour field is cleared
ReplaceHour0(t) == t - ((t % DaySecs) \div HourSecs) * HourSecs

\* day_start + timedelta(days=1) - timedelta(seconds=1)
DayEndOffByOne(day_start) == day_start + DaySecs
DayEnd(day_start) == day_start + DaySecs - 1

\* current.hour
HourOf(t) == (t % DaySecs) \div HourSecs

-----------------------------------------------------------------------------
(* Gap planner: lines 308-336 *)

DailyUnit(current) ==
    [date |-> current, hour |-> "None", daily |-> TRUE, expected_hours |-> 24]

HourlyUnit(current) ==
    [date |-> current, hour |-> HourOf(current), daily |-> FALSE, expected_hours |-> 1]

\* while current <= to_time
LoopContinues(current, to) == current <= to

\* if current == day_start and day_end <= to_time
DailyEligibleIgnoringEnd(current, to) == current = ReplaceHour0(current)
DailyEligibleIgnoringStart(current, to) == DayEnd(ReplaceHour0(current)) <= to
DailyEligible(current, to) ==
    LET day_start == ReplaceHour0(current)
        day_end == DayEnd(day_start)
    IN  current = day_start /\ day_end <= to

RECURSIVE PlanLoop(_, _, _)
PlanLoop(current, to, acc) ==
    IF LoopContinues(current, to)
    THEN IF DailyEligible(current, to)
         THEN PlanLoop(ReplaceHour0(current) + DaySecs, to,
                       Append(acc, DailyUnit(current)))
         ELSE PlanLoop(current + HourSecs, to, Append(acc, HourlyUnit(current)))
    ELSE acc

Plan(from, to) == PlanLoop(TruncHour(from), to, <<>>)

RECURSIVE SumHours(_)
SumHours(plan) ==
    IF plan = <<>> THEN 0 ELSE Head(plan).expected_hours + SumHours(Tail(plan))

-----------------------------------------------------------------------------
(* Bounds of the model and the inputs it enumerates *)

\* at most this many insert_batch failures are injected in one run
MaxFlushFailures == 1

\* windows of the concurrent run; every one satisfies validate_timerange (from < to)
RunWindows ==
    { <<37800, 39600>>,     \* day 0 10:30:00 -> 11:00:00
      <<0, 86399>>,         \* day 0 00:00:00 -> 23:59:59
      <<0, 86400>>,         \* day 0 00:00:00 -> day 1 00:00:00
      <<37800, 43200>>,     \* day 0 10:30:00 -> 12:00:00
      <<1800, 3600>>,       \* day 0 00:30:00 -> 01:00:00
      <<1800, 86399>> }     \* day 0 00:30:00 -> 23:59:59

\* windows of the planner on its own: days 0 .. MaxDay, these times of day
MaxDay == 2
DayOffsets == {0, 1800, 36000, 37800, 39600, 41400, 82800, 86399}
PlanInstants == {d * DaySecs + s : d \in 0 .. MaxDay, s \in DayOffsets}
PlanWindows == {w \in PlanInstants \X PlanInstants : w[1] < w[2]}

RunWorkers == {2}
RunBatchSizes == {1, 2}

\* the records of each archive: offset (seconds after the archive's base time), quote
ArchivePatterns == { <<[off |-> 0, quote |-> 1], [off |-> 1800, quote |-> 2]>> }

-----------------------------------------------------------------------------
(* State *)

Units == 1 .. Len(downloads_to_fetch)

NoSignal ==
    [raised |-> FALSE, pc |-> "", buffer |-> <<>>, ticks_inserted |-> 0,
     completed |-> {}, handled |-> 0]

InitFor(windows, workers, sizes, patterns) ==
    /\ \E w \in windows : from_time = w[1] /\ to_time = w[2]
    /\ max_workers \in workers
    /\ batch_size \in sizes
    /\ archive \in patterns
    /\ shutdown = FALSE
    /\ pc = "plan"
    /\ downloads_to_fetch = <<>>
    /\ fut = <<>>
    /\ completed = {}
    /\ cur = 0
    /\ tick_buffer = <<>>
    /\ stats = [ticks_inserted |-> 0, hours_processed |-> 0]
    /\ progress = [total_hours |-> 0, hours_completed |-> 0,
                   ticks_processed |-> 0, failed_hours |-> <<>>]
    /\ insert_calls = <<>>
    /\ flush_failures = 0
    /\ refresh = [calls |-> <<>>, failed |-> FALSE]
    /\ sig = NoSignal
    /\ forex_ticks = <<>>
    /\ handled = <<>>
    /\ stdout = <<>>
    /\ exited = <<>>
    /\ now = to_time
    /\ aware = [from |-> TRUE, to |-> TRUE]

Init == InitFor(RunWindows, RunWorkers, RunBatchSizes, ArchivePatterns)

-----------------------------------------------------------------------------
(* _signal_handler: lines 150-153 *)

Signal ==
    /\ ~shutdown
    /\ pc \notin {"main", "done", "raised", "exited"}
    /\ shutdown' = TRUE
    /\ sig' = [raised |-> TRUE, pc |-> pc, buffer |-> tick_buffer,
               ticks_inserted |-> stats.ticks_inserted,
               completed |-> completed, handled |-> Len(handled)]
    /\ UNCHANGED <<from_time, to_time, max_workers, batch_size, archive, pc,
                   downloads_to_fetch, fut, completed, cur, tick_buffer, stats,
                   progress, insert_calls, flush_failures, refresh,
                   forex_ticks, handled, stdout, exited, now, aware>>

-----------------------------------------------------------------------------
(* catchup_gap, planning and submission: lines 298-358 *)

\* ProgressReporter.__init__: lines 52-59
NewProgress(total) ==
    [total_hours |-> total, hours_completed |-> 0, ticks_processed |-> 0,
     failed_hours |-> <<>>]

\* ProgressReporter.update: lines 61-66 (failed: <<>> or <<identifier>>)
ProgressUpdate(p, hours, ticks, failed) ==
    [p EXCEPT !.hours_completed = @ + hours,
              !.ticks_processed = @ + ticks,
              !.failed_hours = @ \o failed]

\* ProgressReporter.update: lines 78-90, the JSON line it prints
ProgressLine(p) ==
    [type |-> "progress", current_hour |-> p.hours_completed,
     total_hours |-> p.total_hours, ticks_processed |-> p.ticks_processed,
     failed_hours |-> Len(p.failed_hours)]

\* "success" if not self.failed_hours else "partial"
ReportStatusAlwaysSuccess(p) == "success"
ReportStatus(p) == IF p.failed_hours = <<>> THEN "success" ELSE "partial"

\* ProgressReporter.final_report: lines 92-106, the JSON line it prints
CompleteLineAsProgress(p, ticks_inserted) == ProgressLine(p)
CompleteLine(p, ticks_inserted) ==
    [type |-> "complete", status |-> ReportStatus(p),
     ticks_inserted |-> ticks_inserted, ticks_processed |-> p.ticks_processed,
     hours_processed |-> p.hours_completed, hours_failed |-> Len(p.failed_hours)]

Start ==
    /\ pc = "plan"
    /\ downloads_to_fetch' = Plan(from_time, to_time)
    /\ progress' = NewProgress(SumHours(downloads_to_fetch'))
    /\ fut' = [u \in 1 .. Len(downloads_to_fetch') |-> [st |-> "queued", res |-> "none"]]
    /\ pc' = "loop"
    /\ UNCHANGED <<from_time, to_time, max_workers, batch_size, archive, shutdown,
                   completed, cur, tick_buffer, stats, insert_calls, flush_failures,
                   refresh, sig,
                   forex_ticks, handled, stdout, exited, now, aware>>

-----------------------------------------------------------------------------
(* Worker threads running download_bi5_file: lines 155-190 *)

Running == {u \in Units : fut[u].st \in {"checked", "inflight"}}

\* line 169: if self.shutdown: return None
SeesShutdownNever(flag) == FALSE
SeesShutdown(flag) == flag

\* a pool thread takes the next work item (FIFO) and runs lines 169-170
WorkerStart(u) ==
    /\ pc # "plan"
    /\ fut[u].st = "queued"
    /\ \A v \in Units : v < u => fut[v].st # "queued"
    /\ Cardinality(Running) < max_workers
    /\ IF SeesShutdown(shutdown)
       THEN /\ fut' = [fut EXCEPT ![u] = [st |-> "done", res |-> "shutdown"]]
            /\ completed' = completed \cup {u}
       ELSE /\ fut' = [fut EXCEPT ![u] = [st |-> "checked", res |-> "none"]]
            /\ UNCHANGED completed
    /\ UNCHANGED <<from_time, to_time, max_workers, batch_size, archive, shutdown, pc,
                   downloads_to_fetch, cur, tick_buffer, stats, progress,
                   insert_calls, flush_failures, refresh, sig,
                   forex_ticks, handled, stdout, exited, now, aware>>

\* line 182: self.session.get(url, timeout=30) is issued
WorkerRequest(u) ==
    /\ fut[u].st = "checked"
    /\ fut' = [fut EXCEPT ![u].st = "inflight"]
    /\ UNCHANGED <<from_time, to_time, max_workers, batch_size, archive, shutdown, pc,
                   downloads_to_fetch, completed, cur, tick_buffer, stats, progress,
                   insert_calls, flush_failures, refresh, sig,
                   forex_ticks, handled, stdout, exited, now, aware>>

\* lines 183-190: 404 -> None; RequestException -> None; otherwise the content
FetchOutcomes == {"404", "error", "ok"}

WorkerFinish(u) ==
    /\ fut[u].st = "inflight"
    /\ \E outcome \in FetchOutcomes :
           fut' = [fut EXCEPT ![u] = [st |-> "done", res |-> outcome]]
    /\ completed' = completed \cup {u}
    /\ UNCHANGED <<from_time, to_time, max_workers, batch_size, archive, shutdown, pc,
                   downloads_to_fetch, cur, tick_buffer, stats, progress,
                   insert_calls, flush_failures, refresh, sig,
                   forex_ticks, handled, stdout, exited, now, aware>>

-----------------------------------------------------------------------------
(* catchup_gap, result loop: lines 361-404 *)

\* line 373: base_time = date.replace(hour=0) if dl_info['daily'] else date
BaseTime(dl) == IF dl.daily THEN ReplaceHour0(dl.date) ELSE dl.date

\* parse_bi5_data, lines 222-232: tick_time = base_time + timedelta(milliseconds=...)
ParseTicks(dl) ==
    [i \in 1 .. Len(archive) |->
        [time |-> BaseTime(dl) + archive[i].off, quote |-> archive[i].quote,
         source |-> "dukascopy"]]

\* line 383: from_time <= tick['time'] <= to_time
InWindowNoLowerBound(t) == t <= to_time
InWindowNoUpperBound(t) == from_time <= t
InWindow(t) == from_time <= t /\ t <= to_time

\* lines 381-384
FilterTicks(ticks) == SelectSeq(ticks, LAMBDA tick : InWindow(tick.time))

\* lines 361-366: as_completed yields a finished future (those finished when it
\* was called come in no particular order, the others as they finish: any finished
\* future may be the next one); then the flag is polled
\* line 362: if self.shutdown
LoopSeesShutdownNever(flag) == FALSE
LoopSeesShutdown(flag) == flag

NextCompleted(u) ==
    /\ pc = "loop"
    /\ u \in completed
    /\ completed' = completed \ {u}
    /\ IF LoopSeesShutdown(shutdown)
       THEN pc' = "exit_pool" /\ UNCHANGED cur
       ELSE pc' = "result" /\ cur' = u
    /\ UNCHANGED <<from_time, to_time, max_workers, batch_size, archive, shutdown,
                   downloads_to_fetch, fut, tick_buffer, stats, progress,
                   insert_calls, flush_failures, refresh, sig,
                   forex_ticks, handled, stdout, exited, now, aware>>

\* line 361: every future has been yielded, the for loop ends
LoopExhausted ==
    /\ pc = "loop"
    /\ completed = {}
    /\ \A u \in Units : fut[u].st = "done"
    /\ pc' = "exit_pool"
    /\ UNCHANGED <<from_time, to_time, max_workers, batch_size, archive, shutdown,
                   downloads_to_fetch, fut, completed, cur, tick_buffer, stats,
                   progress, insert_calls, flush_failures, refresh, sig,
                   forex_ticks, handled, stdout, exited, now, aware>>

\* line 347: leaving the with block waits for every submitted future
ExitPool ==
    /\ pc = "exit_pool"
    /\ \A u \in Units : fut[u].st = "done"
    /\ pc' = "drain"
    /\ UNCHANGED <<from_time, to_time, max_workers, batch_size, archive, shutdown,
                   downloads_to_fetch, fut, completed, cur, tick_buffer, stats,
                   progress, insert_calls, flush_failures, refresh, sig,
                   forex_ticks, handled, stdout, exited, now, aware>>

\* line 371: if compressed_data
HasDataAlways(res) == TRUE
HasData(res) == res = "ok"

\* lines 369-392: result, decode (a malformed archive decodes to []), filter, buffer
ProcessResult ==
    /\ pc = "result"
    /\ LET dl == downloads_to_fetch[cur] IN
       \E decoded \in {TRUE, FALSE} :
         LET ticks == IF HasData(fut[cur].res) /\ decoded THEN ParseTicks(dl) ELSE <<>>
             filtered_ticks == FilterTicks(ticks)
         IN  /\ tick_buffer' = tick_buffer \o filtered_ticks
             /\ progress' = ProgressUpdate(progress, dl.expected_hours,
                                           Len(filtered_ticks), <<>>)
             /\ handled' = Append(handled, [unit |-> cur, ticks |-> filtered_ticks])
    /\ stdout' = Append(stdout, ProgressLine(progress'))
    /\ pc' = "threshold"
    /\ UNCHANGED <<from_time, to_time, max_workers, batch_size, archive, shutdown,
                   downloads_to_fetch, fut, completed, cur, stats, insert_calls,
                   flush_failures, refresh, sig, forex_ticks, exited, now, aware>>

\* line 395: if len(tick_buffer) >= self.batch_size
BufferFull == Len(tick_buffer) >= batch_size

\* line 396: tick_buffer[:self.batch_size]
ThresholdBatch == SubSeq(tick_buffer, 1, batch_size)

\* line 398: tick_buffer[self.batch_size:]
AfterThresholdKeepsAll == tick_buffer
AfterThreshold == SubSeq(tick_buffer, batch_size + 1, Len(tick_buffer))

\* insert_batch, line 284: result.rowcount of the upsert (keys of a batch are distinct)
RowCount(batch) == Len(batch)

\* the columns of a row of forex_ticks other than its key
RowOf(tick) == [quote |-> tick.quote, source |-> tick.source]

BatchKeys(batch) == {batch[i].time : i \in 1 .. Len(batch)}

\* insert_batch, lines 270-282: INSERT ... SELECT ... FROM temp_catchup_ticks
\* ON CONFLICT (symbol, time) DO UPDATE SET bid, ask, bid_size, ask_size, source
UpsertKeepingExisting(table, batch) ==
    [k \in DOMAIN table \cup BatchKeys(batch) |->
        IF k \in DOMAIN table
        THEN table[k]
        ELSE RowOf(batch[CHOOSE i \in 1 .. Len(batch) : batch[i].time = k])]
Upsert(table, batch) ==
    [k \in DOMAIN table \cup BatchKeys(batch) |->
        IF k \in BatchKeys(batch)
        THEN RowOf(batch[CHOOSE i \in 1 .. Len(batch) : batch[i].time = k])
        ELSE table[k]]

\* line 404: stats['hours_processed'] += dl_info['expected_hours']
HoursCountedPerFile(dl) == 1
HoursCounted(dl) == dl.expected_hours

\* lines 395-398 and 404: the threshold is not reached
ThresholdSkip ==
    /\ pc = "threshold"
    /\ ~BufferFull
    /\ stats' = [stats EXCEPT !.hours_processed = @ + HoursCounted(downloads_to_fetch[cur])]
    /\ pc' = "loop"
    /\ UNCHANGED <<from_time, to_time, max_workers, batch_size, archive, shutdown,
                   downloads_to_fetch, fut, completed, cur, tick_buffer, progress,
                   insert_calls, flush_failures, refresh, sig,
                   forex_ticks, handled, stdout, exited, now, aware>>

\* lines 395-398 and 404: one batch of batch_size records is inserted
ThresholdFlushOk ==
    /\ pc = "threshold"
    /\ BufferFull
    /\ insert_calls' = Append(insert_calls,
           [batch |-> ThresholdBatch, ok |-> TRUE, final |-> FALSE, after_signal |-> shutdown])
    /\ stats' = [stats EXCEPT
           !.ticks_inserted = @ + RowCount(ThresholdBatch),
           !.hours_processed = @ + HoursCounted(downloads_to_fetch[cur])]
    /\ forex_ticks' = Upsert(forex_ticks, ThresholdBatch)
    /\ tick_buffer' = AfterThreshold
    /\ pc' = "loop"
    /\ UNCHANGED <<from_time, to_time, max_workers, batch_size, archive, shutdown,
                   downloads_to_fetch, fut, completed, cur, progress, flush_failures,
                   refresh, sig, handled, stdout, exited, now, aware>>

\* where an exception raised by the threshold insert_batch lands: the handler of
\* lines 400-402, after which line 404 runs and the loop goes on
AfterThresholdFailurePropagates == "raised"
AfterThresholdFailure == "loop"

\* lines 396-398: insert_batch raised, the assignments of lines 397-398 are not
\* reached and the list keeps every record
BufferAfterFailureSliced == AfterThreshold
BufferAfterFailure == tick_buffer

\* lines 396, 286-288, 400-404: insert_batch raises, the handler records the unit
ThresholdFlushFail ==
    /\ pc = "threshold"
    /\ BufferFull
    /\ flush_failures < MaxFlushFailures
    /\ flush_failures' = flush_failures + 1
    /\ insert_calls' = Append(insert_calls,
           [batch |-> ThresholdBatch, ok |-> FALSE, final |-> FALSE, after_signal |-> shutdown])
    /\ progress' = ProgressUpdate(progress, 0, 0, <<downloads_to_fetch[cur].date>>)
    /\ stats' = [stats EXCEPT !.hours_processed = @ + HoursCounted(downloads_to_fetch[cur])]
    /\ stdout' = Append(stdout, ProgressLine(progress'))
    /\ tick_buffer' = BufferAfterFailure
    /\ pc' = AfterThresholdFailure
    /\ UNCHANGED <<from_time, to_time, max_workers, batch_size, archive, shutdown,
                   downloads_to_fetch, fut, completed, cur, refresh, sig,
                   forex_ticks, handled, exited, now, aware>>

-----------------------------------------------------------------------------
(* catchup_gap, draining: lines 406-409 *)

\* line 407: if tick_buffer and not self.shutdown
FinalFlushDueIgnoringShutdown == tick_buffer # <<>>
FinalFlushDue == tick_buffer # <<>> /\ ~shutdown

DrainCheck ==
    /\ pc = "drain"
    /\ pc' = IF FinalFlushDue THEN "final_flush" ELSE "gate"
    /\ UNCHANGED <<from_time, to_time, max_workers, batch_size, archive, shutdown,
                   downloads_to_fetch, fut, completed, cur, tick_buffer, stats,
                   progress, insert_calls, flush_failures, refresh, sig,
                   forex_ticks, handled, stdout, exited, now, aware>>

\* lines 408-409: the remainder is inserted (the list itself is left as it is)
FinalFlushOk ==
    /\ pc = "final_flush"
    /\ insert_calls' = Append(insert_calls,
           [batch |-> tick_buffer, ok |-> TRUE, final |-> TRUE, after_signal |-> shutdown])
    /\ stats' = [stats EXCEPT !.ticks_inserted = @ + RowCount(tick_buffer)]
    /\ forex_ticks' = Upsert(forex_ticks, tick_buffer)
    /\ pc' = "gate"
    /\ UNCHANGED <<from_time, to_time, max_workers, batch_size, archive, shutdown,
                   downloads_to_fetch, fut, completed, cur, tick_buffer, progress,
                   flush_failures, refresh, sig, handled, stdout, exited, now, aware>>

\* lines 408, 286-288: insert_batch raises outside any try: catchup_gap raises
FinalFlushFail ==
    /\ pc = "final_flush"
    /\ insert_calls' = Append(insert_calls,
           [batch |-> tick_buffer, ok |-> FALSE, final |-> TRUE, after_signal |-> shutdown])
    /\ pc' = "raised"
    /\ UNCHANGED <<from_time, to_time, max_workers, batch_size, archive, shutdown,
                   downloads_to_fetch, fut, completed, cur, tick_buffer, stats,
                   progress, flush_failures, refresh, sig,
                   forex_ticks, handled, stdout, exited, now, aware>>

-----------------------------------------------------------------------------
(* catchup_gap, cascade refresh: lines 411-432 *)

\* timedelta.days of a non-negative duration
TimedeltaDays(d) == d \div DaySecs

Min(a, b) == IF a <= b THEN a ELSE b

\* lines 417-423: while current < to_time
RECURSIVE WeeklyStarts(_, _, _)
WeeklyStarts(current, to, acc) ==
    IF current < to
    THEN WeeklyStarts(Min(current + WeekDays * DaySecs, to), to, Append(acc, current))
    ELSE acc

\* line 416: if (to_time - from_time).days > 7
ChunkedRefreshAnyExcess(from, to) == to - from > WeekDays * DaySecs
ChunkedRefresh(from, to) == TimedeltaDays(to - from) > WeekDays

\* lines 416-428: the start_time of every call, in order
RefreshStarts(from, to) ==
    IF ChunkedRefresh(from, to) THEN WeeklyStarts(from, to, <<>>) ELSE <<from>>

\* line 412: if not self.shutdown and stats['ticks_inserted'] > 0
RefreshDueIgnoringShutdown == stats.ticks_inserted > 0
RefreshDue == ~shutdown /\ stats.ticks_inserted > 0

RefreshSkipped ==
    /\ pc = "gate"
    /\ ~RefreshDue
    /\ pc' = "report"
    /\ UNCHANGED <<from_time, to_time, max_workers, batch_size, archive, shutdown,
                   downloads_to_fetch, fut, completed, cur, tick_buffer, stats,
                   progress, insert_calls, flush_failures, refresh, sig,
                   forex_ticks, handled, stdout, exited, now, aware>>

\* lines 413-429: every call succeeds
RefreshOk ==
    /\ pc = "gate"
    /\ RefreshDue
    /\ refresh' = [calls |-> RefreshStarts(from_time, to_time), failed |-> FALSE]
    /\ pc' = "report"
    /\ UNCHANGED <<from_time, to_time, max_workers, batch_size, archive, shutdown,
                   downloads_to_fetch, fut, completed, cur, tick_buffer, stats,
                   progress, insert_calls, flush_failures, sig,
                   forex_ticks, handled, stdout, exited, now, aware>>

\* lines 413-432: the connection (k = 0) or the k-th call fails; the exception is
\* caught and logged, the remaining calls are not issued
RefreshFail ==
    /\ pc = "gate"
    /\ RefreshDue
    /\ \E k \in 0 .. Len(RefreshStarts(from_time, to_time)) :
           refresh' = [calls |-> SubSeq(RefreshStarts(from_time, to_time), 1, k),
                       failed |-> TRUE]
    /\ pc' = "report"
    /\ UNCHANGED <<from_time, to_time, max_workers, batch_size, archive, shutdown,
                   downloads_to_fetch, fut, completed, cur, tick_buffer, stats,
                   progress, insert_calls, flush_failures, sig,
                   forex_ticks, handled, stdout, exited, now, aware>>

\* lines 434-437: final report, return stats
FinalReport ==
    /\ pc = "report"
    /\ stdout' = Append(stdout, CompleteLine(progress, stats.ticks_inserted))
    /\ pc' = "done"
    /\ UNCHANGED <<from_time, to_time, max_workers, batch_size, archive, shutdown,
                   downloads_to_fetch, fut, completed, cur, tick_buffer, stats,
                   progress, insert_calls, flush_failures, refresh, sig,
                   forex_ticks, handled, exited, now, aware>>

-----------------------------------------------------------------------------
(* main: lines 513-535 *)

ErrorLine == [type |-> "error"]

\* validate_timerange, line 442, and main, lines 514-520: comparing an
\* offset-naive datetime with an offset-aware one raises TypeError, which the
\* handler of line 516 (except ValueError) does not catch
MixedComparison(a, b) == a # b

\* lines 442-443 and 451-453: the two checks that raise ValueError
TimerangeRejected == from_time >= to_time \/ from_time > now

\* lines 514-527: validation, then construction of the ingester.  An uncaught
\* exception ends the process with status 1 and a traceback on standard error.
Validate ==
    /\ pc = "main"
    /\ IF MixedComparison(aware.from, aware.to)
       THEN pc' = "exited" /\ exited' = <<1>> /\ UNCHANGED stdout
       ELSE IF from_time >= to_time
       THEN pc' = "exited" /\ exited' = <<1>> /\ stdout' = Append(stdout, ErrorLine)
       ELSE IF MixedComparison(aware.from, TRUE)
       THEN pc' = "exited" /\ exited' = <<1>> /\ UNCHANGED stdout
       ELSE IF from_time > now
       THEN pc' = "exited" /\ exited' = <<1>> /\ stdout' = Append(stdout, ErrorLine)
       ELSE pc' = "plan" /\ UNCHANGED <<exited, stdout>>
    /\ UNCHANGED <<from_time, to_time, max_workers, batch_size, archive, shutdown,
                   downloads_to_fetch, fut, completed, cur, tick_buffer, stats,
                   progress, insert_calls, flush_failures, refresh, sig,
                   forex_ticks, handled, now, aware>>

\* line 531: sys.exit(0 if stats['ticks_inserted'] > 0 else 1)
ExitStatusAlwaysZero(ticks_inserted) == 0
ExitStatus(ticks_inserted) == IF ticks_inserted > 0 THEN 0 ELSE 1

\* lines 529-531: catchup_gap returned
ExitReturned ==
    /\ pc = "done"
    /\ exited' = <<ExitStatus(stats.ticks_inserted)>>
    /\ pc' = "exited"
    /\ UNCHANGED <<from_time, to_time, max_workers, batch_size, archive, shutdown,
                   downloads_to_fetch, fut, completed, cur, tick_buffer, stats,
                   progress, insert_calls, flush_failures, refresh, sig,
                   forex_ticks, handled, stdout, now, aware>>

\* lines 532-535: catchup_gap raised
ExitRaised ==
    /\ pc = "raised"
    /\ stdout' = Append(stdout, ErrorLine)
    /\ exited' = <<1>>
    /\ pc' = "exited"
    /\ UNCHANGED <<from_time, to_time, max_workers, batch_size, archive, shutdown,
                   downloads_to_fetch, fut, completed, cur, tick_buffer, stats,
                   progress, insert_calls, flush_failures, refresh, sig,
                   forex_ticks, handled, now, aware>>

-----------------------------------------------------------------------------
(* Specifications *)

Next ==
    \/ Start
    \/ Signal
    \/ \E u \in Units : WorkerStart(u)
    \/ \E u \in Units : WorkerRequest(u)
    \/ \E u \in Units : WorkerFinish(u)
    \/ \E u \in Units : NextCompleted(u)
    \/ LoopExhausted
    \/ ExitPool
    \/ ProcessResult
    \/ ThresholdSkip
    \/ ThresholdFlushOk
    \/ ThresholdFlushFail
    \/ DrainCheck
    \/ FinalFlushOk
    \/ FinalFlushFail
    \/ RefreshSkipped
    \/ RefreshOk
    \/ RefreshFail
    \/ FinalReport
    \/ ExitReturned
    \/ ExitRaised

Spec == Init /\ [][Next]_vars

\* Draining and cascade refresh on their own, over windows up to three weeks.
\* The state at line 406 of a run with batch_size 2 in which the archive of the
\* first unit held two ticks, which the threshold flush inserted, and every other
\* unit was answered 404.
DrainDurations ==
    {3600, 86400, 604800, 604801, 606600, 691199, 691200, 1209600, 1296000}
DrainWindows == {<<f, f + d>> : f \in {0, 36000}, d \in DrainDurations}

InitDrained ==
    /\ \E w \in DrainWindows : from_time = w[1] /\ to_time = w[2]
    /\ max_workers \in RunWorkers
    /\ batch_size = 2
    /\ archive \in ArchivePatterns
    /\ shutdown = FALSE
    /\ pc = "drain"
    /\ downloads_to_fetch = Plan(from_time, to_time)
    /\ fut = [u \in 1 .. Len(downloads_to_fetch) |->
                 [st |-> "done", res |-> IF u = 1 THEN "ok" ELSE "404"]]
    /\ completed = {}
    /\ cur = Len(downloads_to_fetch)
    /\ tick_buffer = <<>>
    /\ stats = [ticks_inserted |-> 2,
                hours_processed |-> SumHours(downloads_to_fetch)]
    /\ progress = [total_hours |-> SumHours(downloads_to_fetch),
                   hours_completed |-> SumHours(downloads_to_fetch),
                   ticks_processed |-> 2, failed_hours |-> <<>>]
    /\ insert_calls = <<[batch |-> ParseTicks(downloads_to_fetch[1]), ok |-> TRUE,
                         final |-> FALSE, after_signal |-> FALSE]>>
    /\ flush_failures = 0
    /\ refresh = [calls |-> <<>>, failed |-> FALSE]
    /\ sig = NoSignal
    /\ forex_ticks = Upsert(<<>>, ParseTicks(downloads_to_fetch[1]))
    /\ handled = [u \in 1 .. Len(downloads_to_fetch) |->
                     [unit |-> u,
                      ticks |-> IF u = 1 THEN ParseTicks(downloads_to_fetch[1]) ELSE <<>>]]
    /\ stdout = [u \in 1 .. Len(downloads_to_fetch) |->
                    ProgressLine([total_hours |-> SumHours(downloads_to_fetch),
                                  hours_completed |-> SumHours(SubSeq(downloads_to_fetch, 1, u)),
                                  ticks_processed |-> 2, failed_hours |-> <<>>])]
    /\ exited = <<>>
    /\ now = to_time
    /\ aware = [from |-> TRUE, to |-> TRUE]

NextDrained ==
    \/ Signal
    \/ DrainCheck
    \/ RefreshSkipped
    \/ RefreshOk
    \/ RefreshFail
    \/ FinalReport
    \/ ExitReturned

SpecDrained == InitDrained /\ [][NextDrained]_vars

\* the planner on its own, over many windows
InitPlan == InitFor(PlanWindows, RunWorkers, {2}, ArchivePatterns)
SpecPlan == InitPlan /\ [][Start]_vars

-----------------------------------------------------------------------------
(* Vocabulary of the properties *)

Planned == pc # "plan"

DayAligned(t) == t % DaySecs = 0
SameDay(a, b) == a \div DaySecs = b \div DaySecs

DailyUnits == SelectSeq(downloads_to_fetch, LAMBDA u : u.daily)
HourlyUnits == SelectSeq(downloads_to_fetch, LAMBDA u : ~u.daily)

\* the hour slots (hours since day 0 00:00) a unit covers
UnitHours(u) ==
    IF u.daily THEN [i \in 1 .. 24 |-> u.date \div HourSecs + i - 1]
    ELSE <<u.date \div HourSecs>>

RECURSIVE CoveredHours(_)
CoveredHours(plan) ==
    IF plan = <<>> THEN <<>> ELSE UnitHours(Head(plan)) \o CoveredHours(Tail(plan))

\* the hour slots a, a+1, ..., b in order
HourRange(a, b) == [i \in 1 .. (b - a + 1) |-> a + i - 1]

\* the hour slots that lie inside the closed window [from, to]
HoursInside(from, to) ==
    SelectSeq(HourRange(from \div HourSecs, to \div HourSecs),
              LAMBDA h : from <= h * HourSecs /\ h * HourSecs + HourSecs - 1 <= to)

FullDays(from, to) == (to - from) \div DaySecs

\* the start of the hour that contains t, and that hour's number within its day
HourStart(t) == (t \div HourSecs) * HourSecs
HourNumber(t) == (t \div HourSecs) % 24

AnHourly(t) == [date |-> t, hour |-> HourNumber(t), daily |-> FALSE, expected_hours |-> 1]
ADaily(t) == [date |-> t, hour |-> "None", daily |-> TRUE, expected_hours |-> 24]

-----------------------------------------------------------------------------
(* C1 *)

DayAlignedWindow ==
    DayAligned(from_time) /\ DayAligned(to_time) /\ to_time - from_time >= DaySecs

OneDailyPerFullDay ==
    DailyUnits = [k \in 1 .. FullDays(from_time, to_time) |->
                     ADaily(from_time + (k - 1) * DaySecs)]

\* C1 as stated: on a day-aligned window spanning at least one full day the plan
\* has one Daily unit per full day, and the hours covered by its units are exactly
\* the hours of the requested range: none missing, none twice, none outside it.
C1_AsStated ==
    (Planned /\ DayAlignedWindow) =>
        /\ OneDailyPerFullDay
        /\ CoveredHours(downloads_to_fetch) = HoursInside(from_time, to_time)

\* C1 amended: on a day-aligned window spanning at least one full day the plan is
\* one Daily unit per full day followed by exactly one Hourly unit, for hour 00 of
\* the day of to (the loop bound current <= to_time is inclusive); the hours
\* covered are the hour of from through the hour that begins at to, each once.
C1_DayAlignedPlan ==
    (Planned /\ DayAlignedWindow) =>
        /\ OneDailyPerFullDay
        /\ HourlyUnits = <<AnHourly(to_time)>>
        /\ downloads_to_fetch = DailyUnits \o HourlyUnits
        /\ CoveredHours(downloads_to_fetch) =
               HourRange(from_time \div HourSecs, to_time \div HourSecs)

C1_Witness ==
    Planned /\ DayAlignedWindow /\ to_time - from_time = 2 * DaySecs
        /\ Len(downloads_to_fetch) = 3

-----------------------------------------------------------------------------
(* C2 *)

\* the window lies within one calendar day and does not cover that whole day
IntraDayWindow ==
    /\ SameDay(from_time, to_time)
    /\ ~(from_time % DaySecs = 0 /\ to_time % DaySecs = DaySecs - 1)

CeilHours(d) == (d + HourSecs - 1) \div HourSecs

OnePerHour ==
    \A i \in 1 .. Len(downloads_to_fetch) :
        /\ ~downloads_to_fetch[i].daily
        /\ downloads_to_fetch[i].expected_hours = 1
        /\ downloads_to_fetch[i].date = HourStart(from_time) + (i - 1) * HourSecs
        /\ downloads_to_fetch[i].hour = HourNumber(from_time) + i - 1

\* C2 as stated: on a window within one day that does not cover the whole day the
\* plan has only Hourly units, one per hour, ceil(duration in hours) of them.
C2_AsStated ==
    (Planned /\ IntraDayWindow) =>
        /\ OnePerHour
        /\ Len(downloads_to_fetch) = CeilHours(to_time - from_time)

\* the window starts in hour 00 and ends at 23:59:59 of the same day
WholeDayFromHourZero ==
    SameDay(from_time, to_time) /\ HourNumber(from_time) = 0
        /\ to_time % DaySecs = DaySecs - 1

\* C2 amended: on a window within one day the plan has only Hourly units, one for
\* each hour from the hour of from through the hour of to inclusive, that is
\* hour(to) - hour(from) + 1 units; except that a window which starts anywhere in
\* hour 00 and ends at 23:59:59 yields one Daily unit.
C2_IntraDayPlan ==
    (Planned /\ SameDay(from_time, to_time)) =>
        IF WholeDayFromHourZero
        THEN downloads_to_fetch = <<ADaily(HourStart(from_time))>>
        ELSE /\ OnePerHour
             /\ Len(downloads_to_fetch) = HourNumber(to_time) - HourNumber(from_time) + 1

C2_Witness ==
    Planned /\ IntraDayWindow /\ from_time % HourSecs # 0
        /\ to_time = HourStart(from_time) + HourSecs
        /\ Len(downloads_to_fetch) = 2

-----------------------------------------------------------------------------
(* C3 *)

OneFullDayWindow == DayAligned(from_time) /\ to_time = from_time + DaySecs - 1

\* C3: the window from D 00:00:00 to D 23:59:59 is planned as exactly one unit,
\* Daily with expected_hours 24, so that the total of expected hours is 24.
C3_OneDailyUnit ==
    (Planned /\ OneFullDayWindow) =>
        /\ Len(downloads_to_fetch) = 1
        /\ downloads_to_fetch[1].daily
        /\ downloads_to_fetch[1].date = from_time
        /\ downloads_to_fetch[1].expected_hours = 24
        /\ progress.total_hours = 24

C3_Witness ==
    Planned /\ OneFullDayWindow /\ from_time = DaySecs
        /\ Len(downloads_to_fetch) = 1

-----------------------------------------------------------------------------
(* C4 *)

\* the window starts inside hour h and ends exactly at the start of hour h+1
MidHourToNextHour ==
    /\ from_time % HourSecs # 0
    /\ to_time = HourStart(from_time) + HourSecs
    /\ SameDay(from_time, to_time)

\* every tick that was buffered or handed to insert_batch
RECURSIVE BatchTicks(_)
BatchTicks(calls) ==
    IF calls = <<>> THEN {}
    ELSE {Head(calls).batch[i].time : i \in 1 .. Len(Head(calls).batch)}
             \cup BatchTicks(Tail(calls))

BufferTicks == {tick_buffer[i].time : i \in 1 .. Len(tick_buffer)}
KeptTicks == BufferTicks \cup BatchTicks(insert_calls)

\* C4 as stated: such a window is planned as exactly one Hourly unit, for hour h,
\* and no tick earlier than from passes the time filter.
C4_AsStated ==
    (Planned /\ MidHourToNextHour) =>
        /\ downloads_to_fetch = <<AnHourly(HourStart(from_time))>>
        /\ \A t \in KeptTicks : t >= from_time

\* C4 amended: such a window is planned as exactly two Hourly units, for hour h
\* (the cursor truncates to h:00) and for hour h+1 (the cursor h+1:00 equals to,
\* and the loop bound is inclusive), and no tick earlier than from passes the
\* time filter.
C4_TwoHourlyUnitsFiltered ==
    (Planned /\ MidHourToNextHour) =>
        /\ downloads_to_fetch =
               <<AnHourly(HourStart(from_time)), AnHourly(to_time)>>
        /\ \A t \in KeptTicks : t >= from_time

\* the archive of hour h held a tick at h:00 and one at from; only the latter is kept
C4_Witness ==
    /\ Planned /\ MidHourToNextHour
    /\ pc = "threshold" /\ cur = 1 /\ fut[1].res = "ok"
    /\ ParseTicks(downloads_to_fetch[1])[1].time < from_time
    /\ Len(tick_buffer) = 1 /\ tick_buffer[1].time = from_time

-----------------------------------------------------------------------------
(* C5 *)

\* the signal arrived while the buffer held records not yet handed to a flush
SignalWithUnflushedBuffer ==
    /\ sig.raised
    /\ sig.buffer # <<>>
    /\ sig.pc \in {"loop", "result", "threshold", "exit_pool", "drain"}

CallsAfterSignal == SelectSeq(insert_calls, LAMBDA c : c.after_signal)

RECURSIVE ThresholdRows(_)
ThresholdRows(calls) ==
    IF calls = <<>> THEN 0
    ELSE (IF Head(calls).ok /\ ~Head(calls).final THEN RowCount(Head(calls).batch) ELSE 0)
             + ThresholdRows(Tail(calls))

-----------------------------------------------------------------------------
(* C6 *)

RefreshInvoked == refresh.calls # <<>> \/ refresh.failed

-----------------------------------------------------------------------------
(* C8 *)

\* C8 as stated: after the processing of a completed unit, in a run without flush
\* failure, the buffer is below batchSize, and no flush carries more than
\* batchSize records.
C8_AsStated ==
    /\ (pc = "loop" /\ flush_failures = 0) => Len(tick_buffer) < batch_size
    /\ \A i \in 1 .. Len(insert_calls) : Len(insert_calls[i].batch) <= batch_size

-----------------------------------------------------------------------------
(* C9 *)

\* C9 as stated: catchup_gap never propagates an exception.
C9_AsStated == pc # "raised"

\* C9 amended: whatever the fetch, decode and threshold-flush outcomes are,
\* catchup_gap does not propagate an exception (a failed threshold flush is caught
\* and the loop goes on); the only exception that leaves catchup_gap is a failure
\* of the final remainder flush of line 408.
C9_OnlyFinalFlushRaises ==
    /\ pc = "raised" =>
           /\ insert_calls # <<>>
           /\ insert_calls[Len(insert_calls)].final
           /\ ~insert_calls[Len(insert_calls)].ok
    /\ \A i \in 1 .. Len(insert_calls) :
           (~insert_calls[i].ok /\ ~insert_calls[i].final) =>
               (pc # "raised" \/ i < Len(insert_calls))

\* a threshold flush failed and the run still returned its statistics
C9_Witness ==
    /\ pc = "done"
    /\ \E i \in 1 .. Len(insert_calls) : ~insert_calls[i].ok /\ ~insert_calls[i].final

-----------------------------------------------------------------------------
(* C10 *)

\* C10 as stated: once the flag is raised, no unit that has not yet issued its
\* network request issues one.
C10_AsStated ==
    [][shutdown =>
          \A u \in Units :
              fut[u].st \in {"queued", "checked"} => fut'[u].st # "inflight"]_vars

\* C10 amended: once the flag is raised, a unit whose worker has not yet run the
\* flag check of line 169 never issues a request and yields absent; a unit that
\* passed the check before the flag was raised still issues its request, and a
\* fetch in flight is allowed to finish.
C10_NoFetchAfterCheck ==
    /\ [][shutdown =>
             \A u \in Units :
                 fut[u].st = "queued" =>
                     \/ fut'[u] = fut[u]
                     \/ fut'[u] = [st |-> "done", res |-> "shutdown"]]_vars
    /\ [](\A u \in Units : fut[u].st = "inflight" => ENABLED WorkerFinish(u))

\* after the signal one unit yielded absent at the check while another is in flight
C10_Witness ==
    /\ shutdown
    /\ \E u \in Units : fut[u].st = "done" /\ fut[u].res = "shutdown"
    /\ \E u \in Units : fut[u].st = "inflight"

-----------------------------------------------------------------------------
(* C7 *)

RefreshCompleted == pc \in {"report", "done"} /\ refresh.calls # <<>> /\ ~refresh.failed

\* from, from + 7d, from + 14d, ... strictly below to
SubChunkStarts(from, to) ==
    [k \in 1 .. ((to - from + WeekDays * DaySecs - 1) \div (WeekDays * DaySecs)) |->
        from + (k - 1) * WeekDays * DaySecs]

\* C7 as stated: a refresh that runs to its end issues one call per 7-day
\* sub-chunk when to - from > 7 days, and one call carrying from otherwise.
C7_AsStated ==
    RefreshCompleted =>
        refresh.calls = IF to_time - from_time > WeekDays * DaySecs
                        THEN SubChunkStarts(from_time, to_time)
                        ELSE <<from_time>>

\* C7 amended: a refresh that runs to its end issues one call per 7-day sub-chunk
\* (starts from, from + 7d, ... strictly below to) when the whole days of
\* to - from exceed 7, that is when to - from >= 8 days; when to - from < 8 days it
\* issues exactly one call, carrying from.  A refresh cut short by a failing call
\* has issued a prefix of these calls.
C7_RefreshChunking ==
    LET expected == IF to_time - from_time >= (WeekDays + 1) * DaySecs
                    THEN SubChunkStarts(from_time, to_time)
                    ELSE <<from_time>>
    IN  /\ RefreshCompleted => refresh.calls = expected
        /\ Len(refresh.calls) <= Len(expected)
        /\ \A i \in 1 .. Len(refresh.calls) : refresh.calls[i] = expected[i]

C7_Witness ==
    /\ RefreshCompleted
    /\ to_time - from_time = (WeekDays + 1) * DaySecs
    /\ refresh.calls = <<from_time, from_time + WeekDays * DaySecs>>

-----------------------------------------------------------------------------
(* C11 *)

HandledUnits == {handled[i].unit : i \in 1 .. Len(handled)}

RECURSIVE HandledHours(_)
HandledHours(h) ==
    IF h = <<>> THEN 0
    ELSE downloads_to_fetch[Head(h).unit].expected_hours + HandledHours(Tail(h))

LoopLeft == pc \in {"exit_pool", "drain", "final_flush", "gate", "report", "done",
                    "raised", "exited"}

\* C11 as stated: every fetch result that had completed and was awaiting
\* consumption when the shutdown flag was raised is still decoded, filtered,
\* buffered and counted in hours_processed by the result loop.
C11_AsStated ==
    (sig.raised /\ LoopLeft) => sig.completed \subseteq HandledUnits

\* C11 amended: once the shutdown flag is raised the result loop takes up no
\* further result.  The only result still decoded, filtered, buffered and counted
\* is the one whose processing had begun when the flag was raised (the loop was
\* past the poll of line 362); every result that had completed and was awaiting
\* consumption is dropped, and hours_processed counts exactly the units taken up.
C11_CompletedDroppedOnShutdown ==
    sig.raised =>
        /\ sig.completed \cap HandledUnits = {}
        /\ Len(handled) <= sig.handled + (IF sig.pc = "result" THEN 1 ELSE 0)
        /\ LoopLeft =>
               /\ Len(handled) = sig.handled + (IF sig.pc = "result" THEN 1 ELSE 0)
               /\ stats.hours_processed = HandledHours(handled)

\* the flag was raised while a fetched archive was awaiting consumption, and the
\* run returned without that unit in its count
C11_Witness ==
    /\ sig.raised
    /\ \E u \in sig.completed : fut[u].res = "ok"
    /\ pc = "done"
    /\ stats.hours_processed < progress.total_hours

-----------------------------------------------------------------------------
(* C12 *)

Absent(u) == fut[u].res \in {"404", "error"}

CompleteLines == SelectSeq(stdout, LAMBDA l : l.type = "complete")

\* C12: in a run without shutdown in which every fetch unit returned absent, no
\* insert_batch call and no refresh call is made, the terminal report carries
\* ticks_inserted 0, status success, no failed unit and hours_processed equal to
\* the total of the expected hours of the plan, and the process exits with 1.
C12_AllAbsentRun ==
    (pc = "exited" /\ ~sig.raised /\ \A u \in Units : Absent(u)) =>
        /\ insert_calls = <<>>
        /\ ~RefreshInvoked
        /\ Len(CompleteLines) = 1
        /\ CompleteLines[1].ticks_inserted = 0
        /\ CompleteLines[1].status = "success"
        /\ CompleteLines[1].hours_failed = 0
        /\ CompleteLines[1].hours_processed = SumHours(downloads_to_fetch)
        /\ stats = [ticks_inserted |-> 0,
                    hours_processed |-> SumHours(downloads_to_fetch)]
        /\ exited = <<1>>

\* a run of two units, one answered 404 and one failing in transport, has exited
C12_Witness ==
    /\ pc = "exited" /\ ~sig.raised
    /\ Len(downloads_to_fetch) = 2
    /\ fut[1].res = "404" /\ fut[2].res = "error"

-----------------------------------------------------------------------------
(* main from its first line: validation, then the run *)

\* the wall clock read by validate_timerange: day 0 12:00:00
MainNows == {43200}

\* --from / --to as parsed: two valid windows, to before from, to equal to from,
\* from later than now
MainWindows ==
    { <<37800, 39600>>, <<1800, 3600>>, <<39600, 37800>>, <<37800, 37800>>,
      <<82800, 86399>> }

InitMain ==
    /\ \E w \in MainWindows : from_time = w[1] /\ to_time = w[2]
    /\ max_workers \in RunWorkers
    /\ batch_size \in RunBatchSizes
    /\ archive \in ArchivePatterns
    /\ shutdown = FALSE
    /\ pc = "main"
    /\ downloads_to_fetch = <<>>
    /\ fut = <<>>
    /\ completed = {}
    /\ cur = 0
    /\ tick_buffer = <<>>
    /\ stats = [ticks_inserted |-> 0, hours_processed |-> 0]
    /\ progress = [total_hours |-> 0, hours_completed |-> 0,
                   ticks_processed |-> 0, failed_hours |-> <<>>]
    /\ insert_calls = <<>>
    /\ flush_failures = 0
    /\ refresh = [calls |-> <<>>, failed |-> FALSE]
    /\ sig = NoSignal
    /\ forex_ticks = <<>>
    /\ handled = <<>>
    /\ stdout = <<>>
    /\ exited = <<>>
    /\ now \in MainNows
    /\ aware \in [from : BOOLEAN, to : BOOLEAN]

NextMain ==
    \/ Validate
    \/ Next

SpecMain == InitMain /\ [][NextMain]_vars

-----------------------------------------------------------------------------
(* C13 *)

NoWorkAttempted ==
    /\ downloads_to_fetch = <<>> /\ fut = <<>>
    /\ insert_calls = <<>>
    /\ ~RefreshInvoked

\* C13 as stated: when from >= to, or from is later than the wall clock, main
\* prints exactly one error object and exits with status 1 before the ingester is
\* constructed: no fetch, no flush and no refresh is ever attempted.
C13_AsStated ==
    (TimerangeRejected /\ pc # "main") =>
        /\ pc = "exited"
        /\ exited = <<1>>
        /\ stdout = <<[type |-> "error"]>>
        /\ NoWorkAttempted

-----------------------------------------------------------------------------
(* C14 *)

ErrorLines == SelectSeq(stdout, LAMBDA l : l.type = "error")

FinalFlushRaised ==
    \E i \in 1 .. Len(insert_calls) : insert_calls[i].final /\ ~insert_calls[i].ok

\* C14 as stated: every run that passed validation prints exactly one object of
\* type complete, which is the only line describing the terminal status and the
\* last line printed, also when a persistence flush failed.
C14_AsStated ==
    pc = "exited" =>
        /\ Len(CompleteLines) = 1
        /\ ErrorLines = <<>>
        /\ stdout[Len(stdout)].type = "complete"

\* C14 amended: a run that passed validation prints exactly one terminal line,
\* which is the last line printed, every line before it being a progress object.
\* The terminal line is an object of type complete in normal, cancelled and
\* partially failed runs (a threshold flush failed), and an object of type error,
\* with no complete object at all, when the final remainder flush failed.
C14_TerminalEvent ==
    /\ \A i \in 1 .. Len(stdout) - 1 : stdout[i].type = "progress"
    /\ pc = "exited" =>
           /\ stdout # <<>>
           /\ stdout[Len(stdout)].type =
                  (IF FinalFlushRaised THEN "error" ELSE "complete")
           /\ FinalFlushRaised => exited = <<1>>
    /\ pc \notin {"done", "exited"} =>
           \A i \in 1 .. Len(stdout) : stdout[i].type = "progress"

\* a run in which a threshold flush failed and the final flush failed has exited
C14_Witness ==
    /\ pc = "exited"
    /\ FinalFlushRaised
    /\ progress.failed_hours # <<>>
    /\ Len(stdout) >= 3

-----------------------------------------------------------------------------
(* insert_batch on its own: the final flush of a run over day 0 whose daily     *)
(* archive held the records of the buffer, against every prior table content    *)

UpsertTimes == {0, 1800}
UpsertQuotes == {1, 2}
UpsertSources == {"dukascopy", "live"}

\* prior contents of forex_ticks: any rows at the times of UpsertTimes
UpsertTables ==
    UNION {[keys -> [quote : UpsertQuotes, source : UpsertSources]] :
               keys \in SUBSET UpsertTimes}

\* the daily archive: one or two records, at distinct offsets, in either order
UpsertArchives ==
    {a \in UNION {[1 .. n -> [off : UpsertTimes, quote : UpsertQuotes]] : n \in 1 .. 2} :
        \A i, j \in 1 .. Len(a) : i # j => a[i].off # a[j].off}

InitUpsert ==
    /\ from_time = 0 /\ to_time = DaySecs - 1
    /\ max_workers \in RunWorkers
    /\ batch_size = 3
    /\ archive \in UpsertArchives
    /\ shutdown = FALSE
    /\ pc = "final_flush"
    /\ downloads_to_fetch = Plan(from_time, to_time)
    /\ fut = [u \in 1 .. Len(downloads_to_fetch) |-> [st |-> "done", res |-> "ok"]]
    /\ completed = {}
    /\ cur = 1
    /\ tick_buffer = ParseTicks(downloads_to_fetch[1])
    /\ stats = [ticks_inserted |-> 0,
                hours_processed |-> SumHours(downloads_to_fetch)]
    /\ progress = [total_hours |-> SumHours(downloads_to_fetch),
                   hours_completed |-> SumHours(downloads_to_fetch),
                   ticks_processed |-> Len(tick_buffer), failed_hours |-> <<>>]
    /\ insert_calls = <<>>
    /\ flush_failures = 0
    /\ refresh = [calls |-> <<>>, failed |-> FALSE]
    /\ sig = NoSignal
    /\ forex_ticks \in UpsertTables
    /\ handled = <<[unit |-> 1, ticks |-> tick_buffer]>>
    /\ stdout = <<ProgressLine(progress)>>
    /\ exited = <<>>
    /\ now = to_time
    /\ aware = [from |-> TRUE, to |-> TRUE]

NextUpsert ==
    \/ Signal
    \/ FinalFlushOk
    \/ FinalFlushFail
    \/ RefreshSkipped
    \/ RefreshOk
    \/ RefreshFail
    \/ FinalReport
    \/ ExitReturned
    \/ ExitRaised

SpecUpsert == InitUpsert /\ [][NextUpsert]_vars

-----------------------------------------------------------------------------
(* C15 *)

DistinctKeys(batch) ==
    \A i, j \in 1 .. Len(batch) : i # j => batch[i].time # batch[j].time

\* C15: for a batch with distinct keys and any prior table, a successful flush
\* leaves every key of the batch mapped to the quote and source of the batch's
\* record (also where the key was already present), leaves no other row changed,
\* and flushing the same batch once more would leave the table as it is.
C15_UpsertIdempotent ==
    [][ (insert_calls' # insert_calls /\ insert_calls'[Len(insert_calls')].ok) =>
            LET batch == insert_calls'[Len(insert_calls')].batch
                keys == {batch[i].time : i \in 1 .. Len(batch)}
            IN  DistinctKeys(batch) =>
                  /\ DOMAIN forex_ticks' = DOMAIN forex_ticks \cup keys
                  /\ \A i \in 1 .. Len(batch) :
                         forex_ticks'[batch[i].time] =
                             [quote |-> batch[i].quote, source |-> batch[i].source]
                  /\ \A k \in DOMAIN forex_ticks \ keys :
                         forex_ticks'[k] = forex_ticks[k]
                  /\ Upsert(forex_ticks', batch) = forex_ticks'
                  /\ Upsert(Upsert(forex_ticks, batch), batch) = forex_ticks' ]_vars

\* a one-record batch has been flushed into a table that holds a row of another
\* source at another time: that row is still there, beside the row of the batch
C15_Witness ==
    /\ pc = "gate"
    /\ Len(insert_calls) = 1 /\ insert_calls[1].ok
    /\ Len(insert_calls[1].batch) = 1
    /\ DOMAIN forex_ticks = UpsertTimes
    /\ \E k \in UpsertTimes :
           /\ forex_ticks[k].source = "live"
           /\ insert_calls[1].batch[1].time # k
           /\ forex_ticks[insert_calls[1].batch[1].time].source = "dukascopy"

-----------------------------------------------------------------------------
(* C16 *)

FailedIds == {progress.failed_hours[i] : i \in 1 .. Len(progress.failed_hours)}

FailedThresholdCalls == SelectSeq(insert_calls, LAMBDA c : ~c.ok /\ ~c.final)

\* C16 as stated: a unit answered 404, or whose fetch failed in transport, buffers
\* no tick and is never appended to the failed-units list.
C16_AsStated ==
    /\ \A i \in 1 .. Len(handled) : Absent(handled[i].unit) => handled[i].ticks = <<>>
    /\ \A u \in Units : Absent(u) => downloads_to_fetch[u].date \notin FailedIds

\* C16 amended: taking up an absent unit (404 or transport error) adds its
\* expected hours to hours_completed and nothing to ticks_processed, to the buffer
\* or to the failed list.  The failed list grows only when a threshold flush
\* fails, by the unit being processed at that moment, absent or not: an absent
\* unit is recorded as failed exactly when records buffered by earlier units still
\* fill the buffer to batch_size while it is processed and their flush fails.
C16_AbsentNotFailedByItself ==
    [][ /\ (pc = "result" /\ pc' = "threshold" /\ Absent(cur)) =>
              /\ progress' = [progress EXCEPT !.hours_completed =
                                  @ + downloads_to_fetch[cur].expected_hours]
              /\ tick_buffer' = tick_buffer
              /\ handled'[Len(handled')] = [unit |-> cur, ticks |-> <<>>]
        /\ progress'.failed_hours # progress.failed_hours =>
              /\ pc = "threshold"
              /\ Len(tick_buffer) >= batch_size
              /\ tick_buffer' = tick_buffer
              /\ progress'.failed_hours =
                     Append(progress.failed_hours, downloads_to_fetch[cur].date)
              /\ Len(insert_calls') = Len(insert_calls) + 1
              /\ ~insert_calls'[Len(insert_calls')].ok
              /\ insert_calls'[Len(insert_calls')].batch =
                     SubSeq(tick_buffer, 1, batch_size) ]_vars

\* an absent unit is in the failed list of a run that returned
C16_Witness ==
    /\ pc = "done"
    /\ \E u \in Units : Absent(u) /\ downloads_to_fetch[u].date \in FailedIds

-----------------------------------------------------------------------------
(* C17 *)

ThresholdFlushFailed == FailedThresholdCalls # <<>>

\* C17 as stated: a failed threshold flush is attempted once, records exactly one
\* failed-unit entry, that of the unit being processed, the loop goes on, and the
\* run ends with a terminal report whose status is partial.
C17_AsStated ==
    /\ Len(progress.failed_hours) = Len(FailedThresholdCalls)
    /\ (pc = "exited" /\ ThresholdFlushFailed) =>
           /\ Len(CompleteLines) = 1
           /\ CompleteLines[1].status = "partial"

\* C17 amended: when the threshold flush fails while unit X is being processed,
\* insert_batch is called once for that unit, exactly one entry, X's, is appended
\* to the failed list, the buffer keeps its records, X's hours are counted and the
\* loop goes on with the next completed unit.  The terminal report, when the run
\* reaches it, has status partial and counts the failed entries; the run does not
\* reach it when the final remainder flush fails as well.
C17_ThresholdFailureRecorded ==
    [][ /\ (pc = "threshold" /\ Len(FailedThresholdCalls') > Len(FailedThresholdCalls)) =>
              /\ Len(insert_calls') = Len(insert_calls) + 1
              /\ progress'.failed_hours =
                     Append(progress.failed_hours, downloads_to_fetch[cur].date)
              /\ \A u \in Units :
                     downloads_to_fetch[u].date = downloads_to_fetch[cur].date => u = cur
              /\ tick_buffer' = tick_buffer
              /\ stats'.hours_processed =
                     stats.hours_processed + downloads_to_fetch[cur].expected_hours
              /\ pc' = "loop"
        /\ (Len(CompleteLines') > Len(CompleteLines) /\ ThresholdFlushFailed) =>
              /\ CompleteLines'[1].status = "partial"
              /\ CompleteLines'[1].hours_failed = Len(FailedThresholdCalls)
        /\ (pc' = "exited" /\ ThresholdFlushFailed /\ ~FinalFlushRaised) =>
              Len(CompleteLines') = 1 ]_vars

\* the threshold flush failed while the second unit taken up was in hand, and the
\* run returned with a partial report
C17_Witness ==
    /\ pc = "done"
    /\ Len(progress.failed_hours) = 1
    /\ Len(handled) >= 2
    /\ progress.failed_hours[1] = downloads_to_fetch[handled[2].unit].date
    /\ stdout[Len(stdout)].type = "complete"
    /\ stdout[Len(stdout)].status = "partial"

-----------------------------------------------------------------------------
(* C18 *)

TableTimes == DOMAIN forex_ticks

\* C18: every record in the tick buffer, every record ever handed to insert_batch
\* (whether the call succeeded or not) and every row written to the table has a
\* time within [from_time, to_time].
C18_TimeFilter ==
    \A t \in KeptTicks \cup TableTimes : from_time <= t /\ t <= to_time

\* a fetched archive held a record later than to_time and one inside the window:
\* the latter was buffered and handed to insert_batch, the former was not
C18_Witness ==
    /\ insert_calls # <<>>
    /\ \E i \in 1 .. Len(handled) :
           LET ticks == ParseTicks(downloads_to_fetch[handled[i].unit]) IN
           /\ Len(handled[i].ticks) = 1
           /\ \E j \in 1 .. Len(ticks) : ticks[j].time > to_time
           /\ handled[i].ticks[1].time \in BatchTicks(insert_calls)

-----------------------------------------------------------------------------
(* C19 *)

LastSecondOfDay(day_start) == day_start + 23 * HourSecs + 59 * 60 + 59

\* C19: every Daily unit starts at 00:00:00 of its day and that day, through
\* 23:59:59, ends at or before to; when the cursor starts after 00:00 (from is at
\* or after 01:00 of its day) that first day has no Daily unit; every Hourly unit
\* starts on an hour boundary; and the units are in strictly increasing order of
\* start time.
C19_DailyEligibility ==
    Planned =>
        /\ \A i \in 1 .. Len(downloads_to_fetch) :
               LET u == downloads_to_fetch[i] IN
               IF u.daily
               THEN /\ u.date % DaySecs = 0
                    /\ LastSecondOfDay(u.date) <= to_time
                    /\ u.expected_hours = 24
                    /\ (SameDay(u.date, from_time) => from_time % DaySecs < HourSecs)
               ELSE /\ u.date % HourSecs = 0
                    /\ u.expected_hours = 1
        /\ \A i, j \in 1 .. Len(downloads_to_fetch) :
               i < j => downloads_to_fetch[i].date < downloads_to_fetch[j].date

\* a window that starts mid-day, spans the whole of the next day and ends inside
\* the day after: Hourly units, then a Daily unit, then Hourly units
C19_Witness ==
    /\ Planned
    /\ from_time % DaySecs >= HourSecs
    /\ ~downloads_to_fetch[1].daily
    /\ \E i \in 2 .. Len(downloads_to_fetch) - 1 :
           /\ downloads_to_fetch[i].daily
           /\ ~downloads_to_fetch[i + 1].daily

-----------------------------------------------------------------------------
(* C20 *)

RECURSIVE HandledTicks(_)
HandledTicks(h) == IF h = <<>> THEN <<>> ELSE Head(h).ticks \o HandledTicks(Tail(h))

RECURSIVE FlushedTicks(_)
FlushedTicks(calls) ==
    IF calls = <<>> THEN <<>> ELSE Head(calls).batch \o FlushedTicks(Tail(calls))

SuccessfulCalls == SelectSeq(insert_calls, LAMBDA c : c.ok)

NoDuplicates(seq) == \A i, j \in 1 .. Len(seq) : i # j => seq[i] # seq[j]

NoFlushFailure == \A i \in 1 .. Len(insert_calls) : insert_calls[i].ok

FinalFlushDone == \E i \in 1 .. Len(insert_calls) : insert_calls[i].final

\* C20: each unit is taken up once, one at a time.  While no flush has failed, the
\* batches handed to insert_batch so far, followed by the records still waiting
\* in the buffer, are the filtered ticks in the order they were buffered; in a run
\* without shutdown and without flush failure that has passed line 409 the
\* batches alone are that sequence, so every filtered tick was flushed exactly
\* once.  In every run no record is in two successful flushes.
C20_NoDoubleFlushNoLoss ==
    /\ NoDuplicates([i \in 1 .. Len(handled) |-> handled[i].unit])
    /\ NoFlushFailure =>
           FlushedTicks(insert_calls) \o (IF FinalFlushDone THEN <<>> ELSE tick_buffer)
               = HandledTicks(handled)
    /\ (NoFlushFailure /\ ~shutdown /\ pc \in {"gate", "report", "done", "exited"}) =>
           /\ FlushedTicks(insert_calls) = HandledTicks(handled)
           /\ stats.ticks_inserted = Len(HandledTicks(handled))
    /\ NoDuplicates(FlushedTicks(SuccessfulCalls))

\* two units buffered ticks, a threshold flush and the final flush both succeeded
C20_Witness ==
    /\ pc = "done" /\ ~shutdown /\ NoFlushFailure
    /\ Len(SelectSeq(handled, LAMBDA h : h.ticks # <<>>)) >= 2
    /\ Len(insert_calls) >= 2
    /\ FinalFlushDone
    /\ ~insert_calls[1].final

-----------------------------------------------------------------------------
(* C21 *)

RECURSIVE ExpectedTotal(_)
ExpectedTotal(n) ==
    IF n = 0 THEN 0 ELSE downloads_to_fetch[n].expected_hours + ExpectedTotal(n - 1)

\* the results whose iteration has reached line 404
CountedAt404 ==
    IF pc \in {"result", "threshold"} /\ handled # <<>> /\ handled[Len(handled)].unit = cur
    THEN SubSeq(handled, 1, Len(handled) - 1)
    ELSE handled

\* the loop ended because every future had been yielded, not by the break of line 364
LoopRanToEnd == LoopLeft /\ (sig.raised => sig.pc \in {"exit_pool", "drain", "final_flush",
                                                      "gate", "report"})

\* C21: hours_completed and hours_processed never exceed the total of the expected
\* hours of the plan; each unit is taken up at most once and contributes its
\* expected hours once to either counter (hours_completed when its result is
\* taken up, hours_processed at the end of its iteration); and when the loop was
\* not cut short by shutdown, hours_processed equals the total, also when units
\* were recorded as failed.
C21_HoursAccounting ==
    /\ progress.hours_completed <= ExpectedTotal(Len(downloads_to_fetch))
    /\ stats.hours_processed <= ExpectedTotal(Len(downloads_to_fetch))
    /\ \A i, j \in 1 .. Len(handled) : i # j => handled[i].unit # handled[j].unit
    /\ progress.hours_completed = HandledHours(handled)
    /\ stats.hours_processed = HandledHours(CountedAt404)
    /\ LoopRanToEnd =>
           /\ stats.hours_processed = ExpectedTotal(Len(downloads_to_fetch))
           /\ progress.hours_completed = ExpectedTotal(Len(downloads_to_fetch))

\* a run over a Daily and an Hourly unit in which a threshold flush failed has
\* returned without shutdown, with all 25 hours counted
C21_Witness ==
    /\ pc = "done" /\ ~sig.raised
    /\ progress.failed_hours # <<>>
    /\ Len(downloads_to_fetch) = 2 /\ downloads_to_fetch[1].daily
    /\ stats.hours_processed = 25

-----------------------------------------------------------------------------
(* C22 *)

IsPrefix(a, b) == Len(a) <= Len(b) /\ SubSeq(b, 1, Len(a)) = a

FailedThresholdAt(i) == ~insert_calls[i].ok /\ ~insert_calls[i].final

RunEnded == pc \in {"done", "raised", "exited"}

\* C22 as stated: a failed threshold flush leaves the buffer and ticks_inserted as
\* they were, and the records of the failed batch are handed to insert_batch again
\* by a later call.
C22_AsStated ==
    RunEnded =>
        \A i \in 1 .. Len(insert_calls) :
            FailedThresholdAt(i) =>
                \E j \in i + 1 .. Len(insert_calls) :
                    IsPrefix(insert_calls[i].batch, insert_calls[j].batch)

\* C22 amended: a failed threshold flush leaves the buffer (the ticks of the unit
\* in hand included), ticks_inserted and the table as they were.  The next call of
\* insert_batch, if there is one, starts with the records of the failed batch, and
\* there is one in every run in which the loop is not cut short by shutdown and
\* the flag is not set when line 407 is reached; otherwise the records are
\* discarded with the rest of the buffer.
C22_FailureLeavesState ==
    [][ /\ (pc = "threshold" /\ Len(FailedThresholdCalls') > Len(FailedThresholdCalls)) =>
              /\ tick_buffer' = tick_buffer
              /\ IsPrefix(HandledTicks(<<handled[Len(handled)]>>),
                          SubSeq(tick_buffer', Len(tick_buffer') + 1
                                     - Len(handled[Len(handled)].ticks), Len(tick_buffer')))
              /\ stats'.ticks_inserted = stats.ticks_inserted
              /\ forex_ticks' = forex_ticks
              /\ insert_calls'[Len(insert_calls')].batch = SubSeq(tick_buffer, 1, batch_size)
        /\ (Len(insert_calls') > Len(insert_calls) /\ insert_calls # <<>>
                /\ FailedThresholdAt(Len(insert_calls))) =>
              IsPrefix(insert_calls[Len(insert_calls)].batch,
                       insert_calls'[Len(insert_calls')].batch)
        /\ (pc = "drain" /\ pc' # "drain" /\ ~shutdown /\ insert_calls # <<>>
                /\ FailedThresholdAt(Len(insert_calls))) =>
              pc' = "final_flush" ]_vars

\* the threshold flush failed while the last unit was in hand, and the final flush
\* has inserted the records of the failed batch
C22_Witness ==
    /\ pc = "gate"
    /\ Len(insert_calls) >= 2
    /\ FailedThresholdAt(Len(insert_calls) - 1)
    /\ insert_calls[Len(insert_calls)].final /\ insert_calls[Len(insert_calls)].ok
    /\ IsPrefix(insert_calls[Len(insert_calls) - 1].batch,
                insert_calls[Len(insert_calls)].batch)
    /\ stats.ticks_inserted >= Len(insert_calls[Len(insert_calls) - 1].batch)

=============================================================================
